---- MODULE Spec2Model ----
(***************************************************************************)
(* Model of the clinical intake form (component App,                      *)
(* src/unnamed/part_001): its scroll-synchronised section navigation with *)
(* the rail (src/components/PhaseNavigation.tsx), and its form state:     *)
(* theme, save, age and the BMI derived from height and weight.  Numbers  *)
(* are IEEE-754 doubles, computed on their exact binary values.  The     *)
(* Toast that App renders (src/unnamed/part_000) is part of the model:    *)
(* its effect runs at every render of App.                                 *)
(*                                                                         *)
(* One action stands for one event handler or timer callback of App.  A   *)
(* handler runs to completion and React commits the state it sets and     *)
(* re-registers the effects that depend on it before the next event is    *)
(* delivered, so every handler reads the committed state.                  *)
(*                                                                         *)
(* The browser is the environment: the document geometry of the section   *)
(* elements (layout), the scroll offset (scrollY) and the timer queue      *)
(* (timers).  Lengths are in CSS pixels, as in the source.                 *)
(*                                                                         *)
(* Specifications:                                                         *)
(*   Spec         every handler and timer callback                         *)
(*   SpecNav      scrolling, rail clicks, navigation timers, re-layout     *)
(*   SpecNavLive  SpecNav with timers that fire when due                   *)
(*   SpecExp      navigation and the section headers                       *)
(*   SpecMounted  navigation with every section element in the document    *)
(*   SpecSpy      free scrolling over arbitrary section geometry           *)
(*   SpecSteps    scrollToSection statement by statement                   *)
(*   SpecUnmount  navigation, then App leaves the page                     *)
(*   SpecFrame    scroll events counted per display refresh                *)
(*   SpecBmi      the BMI effect over the height and weight texts          *)
(*   SpecVitals   height and weight edits and the BMI effect               *)
(*   SpecApp      every handler, effect and timer of App together          *)
(*   SpecLanding  navigation with the scroll arriving at its destination   *)
(*   SpecAge      edits and blurs of the age field                         *)
(*   SpecMode     mode changes among navigation and header toggles         *)
(*   SpecToast    save and the Toast component (src/unnamed/part_000)      *)
(*   SpecToastLive  SpecToast with timers that fire when due               *)
(***************************************************************************)
EXTENDS Integers, Sequences, FiniteSets, TLC

\* ------------------------------------------------------------------ bounds

\* Largest number of navigation timers (setTimeout callbacks) pending at once.
MaxPending == 2

\* The model's scroll offsets are 0, ScrollStep, ..., MaxScrollSteps * ScrollStep.
MaxScrollSteps == 3

\* The user clicks the rail buttons and the section headers of MaxTargets
\* sections only (the scroll spy ranges over all of SECTIONS).
MaxTargets == 2

\* The document layouts of the full specification are StackedLayout(0..MaxLayout).
MaxLayout == 1

\* Largest number of scroll events within one display-refresh interval.
MaxBurst == 3

\* Largest number of pending setTimeout callbacks of handleSave.
MaxSaves == 2

\* ------------------------------------------------------- program constants

\* const SECTIONS = [...]: the ids, in document (and rail) order.
SECTIONS == <<"identity", "concern", "hpi", "ros", "background", "exam", "plan">>

SectionIds == {SECTIONS[i] : i \in 1..Len(SECTIONS)}

\* The sections whose rail button and header the user clicks: the ones after
\* the first, so that with two of them one is open at the start ('concern') and
\* one has no entry in expandedSections ('hpi').
Targets == {SECTIONS[i] : i \in 2..(IF MaxTargets + 1 < Len(SECTIONS) THEN MaxTargets + 1
                                                                   ELSE Len(SECTIONS))}

\* Object.keys(MODES)
MODES == {"adult", "obgyn", "peds"}

\* const triggerPoint = scrollPosition + 300
LOOKAHEAD == 300

\* const adjustedTop = offsetTop - 140
LEAD_MARGIN == 140

\* triggerPoint < adjustedTop + offsetHeight + 100
TRAIL_MARGIN == 100

\* const yOffset = -110
Y_OFFSET == 110

\* setTimeout(..., 50): the delay before the programmatic scroll is issued
PRE_SCROLL_DELAY == 50

\* setTimeout(..., 800): the settle timeout
SETTLE_DELAY == 800

\* className="space-y-10": 2.5rem between consecutive sections
SECTION_GAP == 40

\* ---------------------------------------------------------------- state

VARIABLES
    mode,               \* useState<ClinicalMode>('adult')
    expandedSections,   \* useState<Record<string, boolean>>: a function whose DOMAIN is the key set
    activeSectionId,    \* useState('identity')
    isManualScrolling,  \* useRef(false).current
    timers,             \* the browser's pending setTimeout callbacks of scrollToSection, in scheduling order
    scrollY,            \* window.scrollY
    scrollTarget,       \* destination of the last window.scrollTo({behavior:'smooth'}), or NoTarget
    layout,             \* per section: is its element in the document, its offsetTop and offsetHeight
    lastEvent,          \* history: the last scroll, rail click, timer callback or layout change
    mounted,            \* App is mounted: its effects have run and their cleanups have not
    call,               \* the call of scrollToSection in progress: the line it is at, its argument
                        \* and the state updates it has queued
    frame,              \* history: scroll events and scans since the last display refresh
    isDark,             \* useState(true)
    isSaving,           \* useState(false)
    showToast,          \* useState(false)
    saveTimers,         \* number of pending setTimeout callbacks of handleSave
    height,             \* useState<string>(''): a text, as a sequence of characters
    weight,             \* useState<string>('')
    bmi,                \* useState<string | null>(null): a text or Null
    bmiEffectPending,   \* the effect with dependencies [height, weight] has to run
    age,                \* useState<string>('')
    visible,            \* Toast: useState(false)
    hideTimer,          \* Toast: the pending 3000 ms setTimeout of the effect, or NoTimer
    closeTimer          \* Toast: a 300 ms setTimeout(onClose, 300) is pending

\* The state of the form fields, the theme and the save button.
formVars == <<isDark, isSaving, showToast, saveTimers, height, weight, bmi,
              bmiEffectPending, age>>

\* The state of the navigation and of the document it reads.
navVars == <<mode, expandedSections, activeSectionId, isManualScrolling, timers,
             scrollY, scrollTarget, layout, lastEvent>>

\* The state of the Toast component and its timers.
toastVars == <<visible, hideTimer, closeTimer>>

vars == <<mode, expandedSections, activeSectionId, isManualScrolling, timers,
          scrollY, scrollTarget, layout, lastEvent, mounted, call, frame, formVars,
          toastVars>>

\* What App holds in useState: a step that changes it makes React render App.
ReactState == <<mode, expandedSections, activeSectionId, isDark, isSaving, showToast,
                height, weight, bmi, age>>

\* No 3000 ms timer of the Toast is pending.
NoTimer == 0

\* The timers setTimeout hands out to the Toast effect: a new timer is never
\* the one it replaces.
TimerIds == {1, 2}

NewTimer(old) == IF old = 1 THEN 2 ELSE 1

\* The effect of Toast with dependencies [show, onClose], as the last part of
\* every step of App.  A render of App passes a new onClose function, so the
\* effect runs again: the cleanup of its previous run clears the pending hide
\* timer, and with show true it sets visible and starts a new hide timer.
\* The 300 ms timer is not touched.  A step that leaves the state of App as it
\* was does not render.
ToastEffect ==
    IF ReactState' = ReactState
    THEN UNCHANGED toastVars
    ELSE /\ visible' = (showToast' \/ visible)
         /\ hideTimer' = IF showToast' THEN NewTimer(hideTimer) ELSE NoTimer
         /\ UNCHANGED closeTimer

NoTarget == 0 - 1

\* -------------------------------------------------------------- geometry

\* An element as handleScroll and scrollToSection see it: document.getElementById
\* returns null when present is FALSE.
Element(present, top, tall) ==
    [present |-> present, offsetTop |-> top, offsetHeight |-> tall]

\* Heights of a collapsed and of an open section, and the top of the first one
\* (below the sticky header and the padding of <main>): values of the rendering
\* environment, not of the program.
ClosedHeight == 80
OpenHeight == 420
FirstTop == 104

RECURSIVE StackedTop(_, _, _)
\* Top of the i-th section when the mounted sections are stacked in document
\* order, SECTION_GAP apart (the children of <div className="space-y-10">).
StackedTop(i, heightOf, missing) ==
    IF i = 1 THEN FirstTop
    ELSE LET prev == SECTIONS[i - 1]
         IN  StackedTop(i - 1, heightOf, missing)
               + (IF prev \in missing THEN 0 ELSE heightOf[prev] + SECTION_GAP)

IndexOf(id) == CHOOSE i \in 1..Len(SECTIONS) : SECTIONS[i] = id

\* The k-th document layout: every third section (counted from k) is open, and
\* for odd k one section has no element in the document.
StackedLayout(k) ==
    LET heightOf == [s \in SectionIds |->
                        IF (IndexOf(s) + k) % 3 = 0 THEN OpenHeight ELSE ClosedHeight]
        missing  == IF k % 2 = 1 THEN {SECTIONS[(k % Len(SECTIONS)) + 1]} ELSE {}
    IN  [s \in SectionIds |->
            Element(s \notin missing, StackedTop(IndexOf(s), heightOf, missing), heightOf[s])]

Layouts == {StackedLayout(k) : k \in 0..MaxLayout}

\* Scroll offsets the user (or the smooth-scroll animation) can bring the window to.
ScrollStep == 400
ScrollPositions == {ScrollStep * k : k \in 0..MaxScrollSteps}

\* Arbitrary (not stacked) geometry, for the scroll spy on its own: every
\* section is either at position A, or at position B whose trigger window
\* overlaps A's, or (at most MaxMissing of them) not in the document.  Over
\* these layouts every set of sections occurs as the set of windows that
\* contain one probe point.
MaxMissing == 1
SpyTopA == 500
SpyTopB == 700
SpyHeight == 200

SpyElement(kind) ==
    IF kind = "A" THEN Element(TRUE, SpyTopA, SpyHeight)
    ELSE IF kind = "B" THEN Element(TRUE, SpyTopB, SpyHeight)
    ELSE Element(FALSE, 0, 0)

SpyLayouts ==
    {[s \in SectionIds |-> SpyElement(kinds[s])] :
        kinds \in {f \in [SectionIds -> {"A", "B", "none"}] :
                      Cardinality({s \in SectionIds : f[s] = "none"}) <= MaxMissing}}

\* The scroll offsets that put the probe point on, and one pixel outside, each
\* end of A's and of B's trigger window.
SpyPositions ==
    UNION {LET lo == e.offsetTop - LEAD_MARGIN
               hi == lo + e.offsetHeight + TRAIL_MARGIN
           IN  {lo - 1 - LOOKAHEAD, lo - LOOKAHEAD, hi - 1 - LOOKAHEAD, hi - LOOKAHEAD} :
           e \in {SpyElement("A"), SpyElement("B")}}

\* ------------------------------------------------------------ scroll spy

\* Faulty variant of InTriggerWindow: the end of the window is included (<= for <).
InTriggerWindow_InclusiveEnd(element, triggerPoint) ==
    /\ element.present
    /\ LET adjustedTop == element.offsetTop - LEAD_MARGIN
       IN  /\ triggerPoint >= adjustedTop
           /\ triggerPoint <= adjustedTop + element.offsetHeight + TRAIL_MARGIN

\* if (triggerPoint >= adjustedTop && triggerPoint < adjustedTop + offsetHeight + 100),
\* inside if (element)
InTriggerWindow(element, triggerPoint) ==
    /\ element.present
    /\ LET adjustedTop == element.offsetTop - LEAD_MARGIN
       IN  /\ triggerPoint >= adjustedTop
           /\ triggerPoint < adjustedTop + element.offsetHeight + TRAIL_MARGIN

RECURSIVE ScanSections(_, _, _, _)
RECURSIVE ScanSections_FirstMatch(_, _, _, _)
\* Faulty variant of ScanSections: the loop stops at the first hit (a break after the
\* assignment).
ScanSections_FirstMatch(i, current, triggerPoint, lay) ==
    IF i > Len(SECTIONS) THEN current
    ELSE IF lay[SECTIONS[i]].present
            /\ triggerPoint >= lay[SECTIONS[i]].offsetTop - LEAD_MARGIN
            /\ triggerPoint < lay[SECTIONS[i]].offsetTop - LEAD_MARGIN
                                 + lay[SECTIONS[i]].offsetHeight + TRAIL_MARGIN
         THEN SECTIONS[i]
         ELSE ScanSections_FirstMatch(i + 1, current, triggerPoint, lay)

\* for (const section of SECTIONS) { ... current = section.id ... } from the
\* i-th section on: every hit overwrites current, so the last hit stays.
ScanSections(i, current, triggerPoint, lay) ==
    IF i > Len(SECTIONS) THEN current
    ELSE ScanSections(i + 1,
                      IF InTriggerWindow(lay[SECTIONS[i]], triggerPoint)
                      THEN SECTIONS[i] ELSE current,
                      triggerPoint, lay)

\* Faulty variant of handleScroll: current starts empty (let current = '') instead of
\* at activeSectionId.
handleScroll_ClearOnMiss(active, manual, scrollPosition, lay) ==
    IF manual THEN active
    ELSE ScanSections(1, "", scrollPosition + LOOKAHEAD, lay)

\* Faulty variant of handleScroll: current starts at the first section
\* (let current = SECTIONS[0].id).
handleScroll_FirstOnMiss(active, manual, scrollPosition, lay) ==
    IF manual THEN active
    ELSE ScanSections(1, SECTIONS[1], scrollPosition + LOOKAHEAD, lay)

\* The value of activeSectionId after handleScroll has run with the window at
\* scrollPosition: the early return while isManualScrolling.current, else the
\* scan; setActiveSectionId(current) when current !== activeSectionId.
handleScroll(active, manual, scrollPosition, lay) ==
    IF manual THEN active
    ELSE LET triggerPoint == scrollPosition + LOOKAHEAD
             current == ScanSections(1, active, triggerPoint, lay)
         IN  IF current # active THEN current ELSE active

\* ------------------------------------------------------- expansion state

\* !!expandedSections[id], also prev[id] read as a boolean: a missing key is falsy.
IsOpen(expanded, id) == id \in DOMAIN expanded /\ expanded[id]

\* prev => ({ ...prev, [id]: value })
WithKey(prev, id, value) ==
    [k \in DOMAIN prev \cup {id} |-> IF k = id THEN value ELSE prev[k]]

\* Faulty variant of toggleSection: the spread of prev is missing
\* (prev => ({ [id]: !prev[id] })).
toggleSection_NoSpread(prev, id) == [k \in {id} |-> ~IsOpen(prev, id)]

\* setExpandedSections(prev => ({ ...prev, [id]: !prev[id] }))
toggleSection(prev, id) == WithKey(prev, id, ~IsOpen(prev, id))

\* Faulty variant of ForceOpen: opening one section closes the others
\* (an accordion).
ForceOpen_ClosesOthers(prev, id) == [k \in DOMAIN prev \cup {id} |-> k = id]

\* Faulty variant of ForceOpen: the key is not computed
\* (prev => ({ ...prev, id: true })), so the entry written is the one named "id".
ForceOpen_LiteralKey(prev, id) == WithKey(prev, "id", TRUE)

\* setExpandedSections(prev => ({ ...prev, [id]: true }))
ForceOpen(prev, id) == WithKey(prev, id, TRUE)

\* ---------------------------------------------------------------- timers

\* A pending setTimeout callback of scrollToSection.  kind "pre" is the outer
\* callback (50 ms), kind "settle" the inner one (800 ms); id is the section
\* the callback closes over.  latest is a history field: TRUE for the callbacks
\* of the most recent navigation request.
Timer(kind, id, latest) == [kind |-> kind, id |-> id, latest |-> latest]

Delay(t) == IF t.kind = "pre" THEN PRE_SCROLL_DELAY ELSE SETTLE_DELAY

\* The browser runs timers in order of their due time.  A timer scheduled
\* earlier with a delay that is not longer is due earlier; a timer scheduled
\* later with a shorter delay may be due before one scheduled earlier.
CanFire(q, i) ==
    /\ i \in 1..Len(q)
    /\ \A j \in 1..(i - 1) : Delay(q[j]) > Delay(q[i])

Remove(q, i) == SubSeq(q, 1, i - 1) \o SubSeq(q, i + 1, Len(q))

MarkStale(q) == [j \in 1..Len(q) |-> Timer(q[j].kind, q[j].id, FALSE)]

\* window.scrollTo({ top: y }): the browser clamps a negative top to 0.
ScrollDestination(element) ==
    LET y == element.offsetTop - Y_OFFSET
    IN  IF y < 0 THEN 0 ELSE y

\* ------------------------------------------------------------------ Init

\* A value of type string | null: null, or a text (a sequence of characters).
Null == [isNull |-> TRUE, text |-> <<>>]

Str(text) == [isNull |-> FALSE, text |-> text]

\* No call of scrollToSection is in progress.
Idle == [pc |-> "idle", id |-> "", updates |-> <<>>]

\* No scroll event since the last display refresh.
NewFrame == [events |-> 0, scans |-> 0]

\* The initial values of the theme, the save button and the form fields.
InitForm ==
    /\ isDark = TRUE
    /\ isSaving = FALSE
    /\ showToast = FALSE
    /\ saveTimers = 0
    /\ height = <<>>
    /\ weight = <<>>
    /\ bmi = Null
    /\ bmiEffectPending = FALSE
    /\ age = <<>>
    /\ visible = FALSE
    /\ hideTimer = NoTimer
    /\ closeTimer = FALSE

\* Faulty variant of Init: every section starts open.
Init_AllOpen ==
    /\ mode = "adult"
    /\ expandedSections = [k \in SectionIds |-> TRUE]
    /\ activeSectionId = "identity"
    /\ isManualScrolling = FALSE
    /\ timers = <<>>
    /\ scrollY = 0
    /\ scrollTarget = NoTarget
    /\ layout \in Layouts
    /\ lastEvent = "init"
    /\ mounted = TRUE
    /\ call = Idle
    /\ frame = NewFrame
    /\ InitForm

Init ==
    /\ mode = "adult"
    /\ expandedSections = [k \in {"concern", "identity"} |-> TRUE]
    /\ activeSectionId = "identity"
    /\ isManualScrolling = FALSE
    /\ timers = <<>>
    /\ scrollY = 0
    /\ scrollTarget = NoTarget
    /\ layout \in Layouts
    /\ lastEvent = "init"
    /\ mounted = TRUE
    /\ call = Idle
    /\ frame = NewFrame
    /\ InitForm

\* --------------------------------------------------------------- actions

\* Faulty variant of Scroll: the handler also opens the section it selects.
Scroll_OpensActive(y) ==
    /\ mounted
    /\ scrollY' = y
    /\ activeSectionId' = handleScroll(activeSectionId, isManualScrolling, y, layout)
    /\ expandedSections' = ForceOpen(expandedSections, activeSectionId')
    /\ lastEvent' = "scroll"
    /\ UNCHANGED <<mounted, call, formVars>>
    /\ UNCHANGED <<mode, isManualScrolling, timers, scrollTarget, layout>>
    /\ ToastEffect

\* A scroll event of the window, delivered to the handleScroll listener.
Scroll(y) ==
    /\ mounted
    /\ scrollY' = y
    /\ activeSectionId' = handleScroll(activeSectionId, isManualScrolling, y, layout)
    /\ lastEvent' = "scroll"
    /\ UNCHANGED <<mounted, call, formVars>>
    /\ UNCHANGED <<mode, expandedSections, isManualScrolling, timers, scrollTarget, layout>>
    /\ ToastEffect

\* Faulty variant of scrollToSection: the early return for the active section is missing.
scrollToSection_NoGuard(id) ==
    [active |-> id, manual |-> TRUE,
     expanded |-> ForceOpen(expandedSections, id),
     queue |-> Append(MarkStale(timers), Timer("pre", id, TRUE))]

\* scrollToSection(id) up to the first setTimeout: what the handler does
\* synchronously.  The result is the new values of the four things it writes.
scrollToSection(id) ==
    IF activeSectionId = id
    THEN [active |-> activeSectionId, manual |-> isManualScrolling,
          expanded |-> expandedSections, queue |-> timers]
    ELSE [active |-> id, manual |-> TRUE,
          expanded |-> ForceOpen(expandedSections, id),
          queue |-> Append(MarkStale(timers), Timer("pre", id, TRUE))]

\* A click on the rail button of section id: onClick={() => onSelect(item.id)}
\* with onSelect={scrollToSection}.
RailClick(id) ==
    /\ mounted
    /\ activeSectionId # id => Len(timers) < MaxPending
    /\ LET r == scrollToSection(id)
       IN  /\ activeSectionId' = r.active
           /\ isManualScrolling' = r.manual
           /\ expandedSections' = r.expanded
           /\ timers' = r.queue
    /\ lastEvent' = "click"
    /\ UNCHANGED <<mounted, call, frame, formVars>>
    /\ UNCHANGED <<mode, scrollY, scrollTarget, layout>>
    /\ ToastEffect

\* Faulty variant of PreScrollFires: the else branch (no element) does not clear the flag.
PreScrollFires_NoElse(i) ==
    /\ CanFire(timers, i)
    /\ timers[i].kind = "pre"
    /\ LET t  == timers[i]
           el == layout[t.id]
       IN  IF el.present
           THEN /\ scrollTarget' = ScrollDestination(el)
                /\ timers' = Append(Remove(timers, i), Timer("settle", t.id, t.latest))
           ELSE /\ timers' = Remove(timers, i)
                /\ UNCHANGED scrollTarget
    /\ lastEvent' = "preScroll"
    /\ UNCHANGED <<mounted, call, frame, formVars>>
    /\ UNCHANGED <<mode, expandedSections, activeSectionId, isManualScrolling, scrollY, layout>>
    /\ ToastEffect

\* The outer setTimeout callback of scrollToSection (50 ms after the click).
PreScrollFires(i) ==
    /\ CanFire(timers, i)
    /\ timers[i].kind = "pre"
    /\ LET t  == timers[i]
           el == layout[t.id]
       IN  IF el.present
           THEN /\ scrollTarget' = ScrollDestination(el)
                /\ timers' = Append(Remove(timers, i), Timer("settle", t.id, t.latest))
                /\ UNCHANGED isManualScrolling
           ELSE /\ isManualScrolling' = FALSE
                /\ timers' = Remove(timers, i)
                /\ UNCHANGED scrollTarget
    /\ lastEvent' = "preScroll"
    /\ UNCHANGED <<mounted, call, frame, formVars>>
    /\ UNCHANGED <<mode, expandedSections, activeSectionId, scrollY, layout>>
    /\ ToastEffect

\* Faulty variant of SettleFires: the callback does not clear the flag.
SettleFires_KeepSuppressed(i) ==
    /\ CanFire(timers, i)
    /\ timers[i].kind = "settle"
    /\ timers' = Remove(timers, i)
    /\ lastEvent' = "settle"
    /\ UNCHANGED <<mounted, call, frame, formVars>>
    /\ UNCHANGED <<mode, expandedSections, activeSectionId, isManualScrolling, scrollY,
                   scrollTarget, layout>>
    /\ ToastEffect

\* The inner setTimeout callback (800 ms after the scroll request).
SettleFires(i) ==
    /\ CanFire(timers, i)
    /\ timers[i].kind = "settle"
    /\ isManualScrolling' = FALSE
    /\ timers' = Remove(timers, i)
    /\ lastEvent' = "settle"
    /\ UNCHANGED <<mounted, call, frame, formVars>>
    /\ UNCHANGED <<mode, expandedSections, activeSectionId, scrollY, scrollTarget, layout>>
    /\ ToastEffect

\* Faulty variant of ToggleSection: a click on the header also selects the section.
ToggleSection_Selects(id) ==
    /\ mounted
    /\ expandedSections' = toggleSection(expandedSections, id)
    /\ activeSectionId' = id
    /\ UNCHANGED <<mounted, call, frame, formVars>>
    /\ UNCHANGED <<lastEvent, mode, isManualScrolling, timers, scrollY, scrollTarget, layout>>
    /\ ToastEffect

\* A click on a section header: onToggle={() => toggleSection(id)}.
ToggleSection(id) ==
    /\ mounted
    /\ expandedSections' = toggleSection(expandedSections, id)
    /\ UNCHANGED <<mounted, call, frame, formVars>>
    /\ UNCHANGED <<lastEvent, mode, activeSectionId, isManualScrolling, timers, scrollY, scrollTarget, layout>>
    /\ ToastEffect

\* Faulty variant of SetMode: a change of mode puts the sections back to their
\* initial expansion.
SetMode_ResetsExpansion(m) ==
    /\ mounted
    /\ mode' = m
    /\ expandedSections' = IF m # mode THEN [k \in {"concern", "identity"} |-> TRUE]
                                       ELSE expandedSections
    /\ UNCHANGED <<mounted, call, frame, formVars>>
    /\ UNCHANGED <<lastEvent, activeSectionId, isManualScrolling, timers,
                   scrollY, scrollTarget, layout>>
    /\ ToastEffect

\* A click on a button of the mode control: onClick={() => setMode(m)}.
SetMode(m) ==
    /\ mounted
    /\ mode' = m
    /\ UNCHANGED <<mounted, call, frame, formVars>>
    /\ UNCHANGED <<lastEvent, expandedSections, activeSectionId, isManualScrolling, timers,
                   scrollY, scrollTarget, layout>>
    /\ ToastEffect

\* The browser lays the document out again (a section opened or closed, the
\* mode's field groups changed, the window was resized).
Relayout(l) ==
    /\ mounted
    /\ l # layout
    /\ layout' = l
    /\ lastEvent' = "relayout"
    /\ UNCHANGED <<mounted, call, frame, formVars>>
    /\ UNCHANGED <<mode, expandedSections, activeSectionId, isManualScrolling, timers,
                   scrollY, scrollTarget>>
    /\ ToastEffect

\* A scroll event at any offset; display refreshes are not told apart.
ScrollEvent == \E y \in ScrollPositions : Scroll(y) /\ UNCHANGED frame
Click == \E id \in Targets : RailClick(id)
PreScroll == \E i \in 1..Len(timers) : PreScrollFires(i)
Settle == \E i \in 1..Len(timers) : SettleFires(i)
Toggle == \E id \in Targets : ToggleSection(id)
ModeChange == \E m \in MODES : SetMode(m)
LayoutChange == \E l \in Layouts : Relayout(l)

\* The application: every handler and timer callback, over a document whose
\* layout is the one chosen at the start.
Next ==
    \/ ScrollEvent
    \/ Click
    \/ PreScroll
    \/ Settle
    \/ Toggle
    \/ ModeChange

Spec == Init /\ [][Next]_vars

\* Navigation alone: scrolling, rail clicks and the navigation timers, while the
\* browser may lay the document out again at any time.
NavNext ==
    \/ ScrollEvent
    \/ Click
    \/ PreScroll
    \/ Settle
    \/ LayoutChange

SpecNav == Init /\ [][NavNext]_vars

\* The navigation timers are browser timers: each fires once it is due.
SpecNavLive == SpecNav /\ WF_vars(PreScroll) /\ WF_vars(Settle)

\* Navigation and the section headers.
ExpNext ==
    \/ ScrollEvent
    \/ Click
    \/ PreScroll
    \/ Settle
    \/ Toggle

SpecExp == Init /\ [][ExpNext]_vars

\* Navigation when every section has its element in the document.
InitMounted == Init /\ \A s \in SectionIds : layout[s].present

MountedNext ==
    \/ ScrollEvent
    \/ Click
    \/ PreScroll
    \/ Settle

SpecMounted == InitMounted /\ [][MountedNext]_vars

\* The scroll spy over arbitrary geometry.
InitSpy ==
    /\ mode = "adult"
    /\ expandedSections = [k \in {"concern", "identity"} |-> TRUE]
    /\ activeSectionId = "identity"
    /\ isManualScrolling = FALSE
    /\ timers = <<>>
    /\ scrollY = 0
    /\ scrollTarget = NoTarget
    /\ layout \in SpyLayouts
    /\ lastEvent = "init"
    /\ mounted = TRUE
    /\ call = Idle
    /\ frame = NewFrame
    /\ InitForm

SpyScrollEvent == \E y \in SpyPositions : Scroll(y) /\ UNCHANGED frame

\* Free scrolling from the initial state (no navigation request is made).
SpecSpy == InitSpy /\ [][SpyScrollEvent]_vars

\* ------------------------------------------- scrollToSection line by line

\* What a line of scrollToSection leaves alone besides what it writes.
StepFrame == <<mode, scrollY, scrollTarget, layout, mounted, frame, formVars>>

\* Line 199: the rail button of section id is clicked and scrollToSection(id)
\* starts; it returns at once when id is the active section.
NavCall(id) ==
    /\ mounted
    /\ call = Idle
    /\ activeSectionId # id => Len(timers) < MaxPending
    /\ call' = IF activeSectionId = id THEN Idle
               ELSE [pc |-> "200", id |-> id, updates |-> <<>>]
    /\ lastEvent' = "click"
    /\ UNCHANGED <<activeSectionId, expandedSections, isManualScrolling, timers, StepFrame>>
    /\ ToastEffect

\* Line 200: isManualScrolling.current = true, a write to the ref, in place.
NavSetFlag ==
    /\ call.pc = "200"
    /\ isManualScrolling' = TRUE
    /\ call' = [call EXCEPT !.pc = "201"]
    /\ UNCHANGED <<activeSectionId, expandedSections, timers, lastEvent, StepFrame>>
    /\ ToastEffect

\* Line 201: setActiveSectionId(id).  Inside an event handler React queues the
\* update; activeSectionId changes at the render that follows the handler.
NavSetActive ==
    /\ call.pc = "201"
    /\ call' = [call EXCEPT !.pc = "202", !.updates = Append(@, "activeSectionId")]
    /\ UNCHANGED <<activeSectionId, expandedSections, isManualScrolling, timers, lastEvent,
                   StepFrame>>
    /\ ToastEffect

\* Line 202: setExpandedSections(prev => ({ ...prev, [id]: true })), queued too.
NavSetExpanded ==
    /\ call.pc = "202"
    /\ call' = [call EXCEPT !.pc = "203", !.updates = Append(@, "expandedSections")]
    /\ UNCHANGED <<activeSectionId, expandedSections, isManualScrolling, timers, lastEvent,
                   StepFrame>>
    /\ ToastEffect

\* Lines 203-215: setTimeout(() => {...}, 50); the handler returns.
NavSetTimeout ==
    /\ call.pc = "203"
    /\ timers' = Append(MarkStale(timers), Timer("pre", call.id, TRUE))
    /\ call' = [call EXCEPT !.pc = "return"]
    /\ UNCHANGED <<activeSectionId, expandedSections, isManualScrolling, lastEvent, StepFrame>>
    /\ ToastEffect

\* The handler has returned: React renders App with the queued updates applied.
NavRender ==
    /\ call.pc = "return"
    /\ activeSectionId' =
          IF \E k \in 1..Len(call.updates) : call.updates[k] = "activeSectionId"
          THEN call.id ELSE activeSectionId
    /\ expandedSections' =
          IF \E k \in 1..Len(call.updates) : call.updates[k] = "expandedSections"
          THEN ForceOpen(expandedSections, call.id) ELSE expandedSections
    /\ call' = Idle
    /\ UNCHANGED <<isManualScrolling, timers, lastEvent, StepFrame>>
    /\ ToastEffect

NavStart == \E id \in Targets : NavCall(id)

\* Navigation with scrollToSection taken one line at a time.  A handler runs to
\* completion: no scroll event and no timer callback is delivered while the
\* call is in progress.
StepNext ==
    \/ NavStart
    \/ NavSetFlag
    \/ NavSetActive
    \/ NavSetExpanded
    \/ NavSetTimeout
    \/ NavRender
    \/ call = Idle /\ ScrollEvent
    \/ call = Idle /\ PreScroll
    \/ call = Idle /\ Settle

SpecSteps == Init /\ [][StepNext]_vars

\* ---------------------------------------------------------------- unmount

\* The document after App's elements have been removed from it:
\* document.getElementById returns null for every section id.
NoElements == [s \in SectionIds |-> Element(FALSE, 0, 0)]

\* App is unmounted.  React runs the cleanups of its effects, of which the one
\* of the scroll effect is window.removeEventListener('scroll', handleScroll),
\* and removes App's elements from the document.  No cleanup calls clearTimeout
\* for a timer of scrollToSection (the handler keeps no timer id), so the
\* pending callbacks stay in the browser's queue; they close over the ref.
Unmount ==
    /\ mounted
    /\ mounted' = FALSE
    /\ layout' = NoElements
    /\ lastEvent' = "unmount"
    /\ UNCHANGED <<mode, expandedSections, activeSectionId, isManualScrolling, timers,
                   scrollY, scrollTarget, call, frame, formVars>>
    /\ hideTimer' = NoTimer
    /\ UNCHANGED <<visible, closeTimer>>

\* Navigation, and the unmounting of App at any moment.
UnmountNext ==
    \/ ScrollEvent
    \/ Click
    \/ PreScroll
    \/ Settle
    \/ Unmount

SpecUnmount == Init /\ [][UnmountNext]_vars

\* ----------------------------------------------------------- mode blocks

\* A child of a Section in App's JSX with the modes in which it is rendered: a
\* child inside {mode === 'm' && (...)} is rendered in mode m only, any other
\* child in every mode.
Block(name, modes) == [name |-> name, modes |-> modes]

\* The children of each Section, in the order of the source.
SectionBlocks(sectionId) ==
    CASE sectionId = "identity" ->
            << Block("Patient Name, Age, Gender", MODES),
               Block("Caregiver", {"peds"}),
               Block("Height, Weight, BMI", MODES) >>
      [] sectionId = "concern" -> << Block("Chief Concern", MODES) >>
      [] sectionId = "hpi" -> << Block("History of Present Illness", MODES) >>
      [] sectionId = "ros" ->
            << Block("General", MODES),
               Block("Gyn/Ob Specific", {"obgyn"}),
               Block("Cardio-Respiratory", MODES),
               Block("Gastrointestinal", MODES),
               Block("Genitourinary", MODES),
               Block("Neurological", MODES),
               Block("Behavior/Skin", {"peds"}),
               Block("Psych/Other", {"adult"}) >>
      [] sectionId = "background" ->
            << Block("OB/GYN BACKGROUND", {"obgyn"}),
               Block("PEDIATRIC BACKGROUND", {"peds"}),
               Block("ADULT BACKGROUND", {"adult"}) >>
      [] sectionId = "exam" ->
            << Block("Vitals Block", MODES),
               Block("PEDS EXAM", {"peds"}),
               Block("OB/GYN EXAM", {"obgyn"}),
               Block("ADULT EXAM", {"adult"}) >>
      [] sectionId = "plan" -> << Block("Assessment & Plan", MODES) >>

RECURSIVE BlocksIn(_, _, _)
\* Faulty variant of BlocksIn: the conditions on mode are left out.
BlocksIn_EveryMode(blocks, i, m) ==
    IF i > Len(blocks) THEN <<>>
    ELSE <<blocks[i].name>> \o BlocksIn(blocks, i + 1, m)

\* The blocks from the i-th on that App renders in mode m.
BlocksIn(blocks, i, m) ==
    IF i > Len(blocks) THEN <<>>
    ELSE (IF m \in blocks[i].modes THEN <<blocks[i].name>> ELSE <<>>)
            \o BlocksIn(blocks, i + 1, m)

\* The children App renders inside Section sectionId.
SectionChildren(sectionId) == BlocksIn(SectionBlocks(sectionId), 1, mode)

\* ---------------------------------------------------------------- landing

\* The smooth scroll requested by window.scrollTo brings the window to its
\* destination, or the window is scrolled there again: a scroll event with
\* window.scrollY at the destination.
ScrollArrives ==
    /\ scrollTarget # NoTarget
    /\ Scroll(scrollTarget)
    /\ UNCHANGED frame

\* Navigation with the scroll events of the programmatic scroll.
LandingNext ==
    \/ ScrollEvent
    \/ ScrollArrives
    \/ Click
    \/ PreScroll
    \/ Settle

SpecLanding == InitMounted /\ [][LandingNext]_vars

\* ------------------------------------------------- display-refresh intervals

\* A scroll event within the current display-refresh interval.  The listener
\* registered on line 190 is handleScroll itself: every scroll event calls it,
\* and it scans the sections unless isManualScrolling.current is set.  No
\* requestAnimationFrame or pending-callback guard stands between the event and
\* the scan (the only one in App is on the mousemove listener).
FrameScroll(y) ==
    /\ frame.events < MaxBurst
    /\ Scroll(y)
    /\ frame' = [events |-> frame.events + 1,
                 scans  |-> frame.scans + (IF isManualScrolling THEN 0 ELSE 1)]

\* The display refreshes: the next interval begins.
DisplayRefresh ==
    /\ frame # NewFrame
    /\ frame' = NewFrame
    /\ UNCHANGED <<mode, expandedSections, activeSectionId, isManualScrolling, timers,
                   scrollY, scrollTarget, layout, lastEvent, mounted, call, formVars>>
    /\ ToastEffect

FrameScrollEvent == \E y \in ScrollPositions : FrameScroll(y)

\* Navigation with the scroll events counted per display-refresh interval.
FrameNext ==
    \/ FrameScrollEvent
    \/ DisplayRefresh
    \/ Click
    \/ PreScroll
    \/ Settle

SpecFrame == Init /\ [][FrameNext]_vars

\* ------------------------------------------------------------------ texts

\* A JavaScript string is a sequence of one-character strings; '' is << >>.
DigitValue == [c \in {"0", "1", "2", "3", "4", "5", "6", "7", "8", "9"} |->
                 CASE c = "0" -> 0 [] c = "1" -> 1 [] c = "2" -> 2 [] c = "3" -> 3
                   [] c = "4" -> 4 [] c = "5" -> 5 [] c = "6" -> 6 [] c = "7" -> 7
                   [] c = "8" -> 8 [] c = "9" -> 9]

IsDigit(c) == c \in DOMAIN DigitValue

DigitChar(d) == CHOOSE c \in DOMAIN DigitValue : DigitValue[c] = d

RECURSIVE Power10(_)
Power10(n) == IF n = 0 THEN 1 ELSE 10 * Power10(n - 1)

\* Number.prototype.toString of a non-negative integer.
RECURSIVE NatToString(_)
NatToString(n) ==
    IF n < 10 THEN <<DigitChar(n)>>
    ELSE Append(NatToString(n \div 10), DigitChar(n % 10))

\* --------------------------------------------- natural numbers of any size

\* The significand of a double has 53 bits and the product of two has 106, more
\* than an integer of the model holds.  A large natural number is the sequence
\* of its digits in base LIMB, least significant first, without leading zero;
\* 0 is << >>.
LIMB == 2^15

RECURSIVE BigOf(_)
BigOf(n) == IF n = 0 THEN <<>> ELSE <<n % LIMB>> \o BigOf(n \div LIMB)

RECURSIVE BigToNat(_)
BigToNat(a) == IF a = <<>> THEN 0 ELSE a[1] + LIMB * BigToNat(Tail(a))

RECURSIVE BigTrim(_)
BigTrim(a) ==
    IF a # <<>> /\ a[Len(a)] = 0 THEN BigTrim(SubSeq(a, 1, Len(a) - 1)) ELSE a

\* a * k + carry, for 0 < k < LIMB and 0 <= carry < LIMB.
RECURSIVE BigScale(_, _, _)
BigScale(a, k, carry) ==
    IF a = <<>> THEN BigOf(carry)
    ELSE LET v == a[1] * k + carry
         IN  <<v % LIMB>> \o BigScale(Tail(a), k, v \div LIMB)

BigDouble(a) == BigScale(a, 2, 0)

\* a * 2^k: k \div 15 whole limbs and a factor below LIMB.
BigTimesPow2(a, k) ==
    IF a = <<>> THEN a
    ELSE [i \in 1..(k \div 15) |-> 0] \o BigScale(a, 2^(k % 15), 0)

RECURSIVE BigAddCarry(_, _, _)
BigAddCarry(a, b, carry) ==
    IF a = <<>> /\ b = <<>> THEN BigOf(carry)
    ELSE LET v == (IF a = <<>> THEN 0 ELSE a[1]) + (IF b = <<>> THEN 0 ELSE b[1]) + carry
         IN  <<v % LIMB>> \o BigAddCarry(IF a = <<>> THEN a ELSE Tail(a),
                                         IF b = <<>> THEN b ELSE Tail(b), v \div LIMB)

BigAdd(a, b) == BigAddCarry(a, b, 0)

\* a - b - borrow, for a >= b + borrow.
RECURSIVE BigSubBorrow(_, _, _)
BigSubBorrow(a, b, borrow) ==
    IF a = <<>> THEN <<>>
    ELSE LET v == a[1] - (IF b = <<>> THEN 0 ELSE b[1]) - borrow
         IN  <<IF v < 0 THEN v + LIMB ELSE v>>
                 \o BigSubBorrow(Tail(a), IF b = <<>> THEN b ELSE Tail(b),
                                 IF v < 0 THEN 1 ELSE 0)

BigSub(a, b) == BigTrim(BigSubBorrow(a, b, 0))

\* The sign of a - b: -1, 0 or 1.
RECURSIVE BigCmpFrom(_, _, _)
BigCmpFrom(a, b, i) ==
    IF i = 0 THEN 0
    ELSE IF a[i] < b[i] THEN 0 - 1
    ELSE IF a[i] > b[i] THEN 1
    ELSE BigCmpFrom(a, b, i - 1)

BigCmp(a, b) ==
    IF Len(a) < Len(b) THEN 0 - 1
    ELSE IF Len(a) > Len(b) THEN 1
    ELSE BigCmpFrom(a, b, Len(a))

RECURSIVE BigMul(_, _)
BigMul(a, b) ==
    IF a = <<>> \/ b = <<>> THEN <<>>
    ELSE LET rest == BigMul(a, Tail(b))
         IN  BigAdd(IF b[1] = 0 THEN <<>> ELSE BigScale(a, b[1], 0),
                    IF rest = <<>> THEN rest ELSE <<0>> \o rest)

\* floor(a / 2^k): k \div 15 whole limbs dropped, the rest moved down k % 15 bits.
BigShiftRight(a, k) ==
    LET b == SubSeq(a, k \div 15 + 1, Len(a))
        low == 2^(k % 15)
    IN  BigTrim([i \in 1..Len(b) |->
                    b[i] \div low
                      + (IF i < Len(b) THEN (b[i + 1] % low) * (LIMB \div low) ELSE 0)])

\* The number of bits of a limb, and of a large number.
RECURSIVE LimbBits(_)
LimbBits(n) == IF n = 0 THEN 0 ELSE 1 + LimbBits(n \div 2)

BigBits(a) == IF a = <<>> THEN 0 ELSE 15 * (Len(a) - 1) + LimbBits(a[Len(a)])

BigIsOdd(a) == a # <<>> /\ a[1] % 2 = 1

\* ----------------------------------------------------------------- numbers

\* A JavaScript number: NaN, or the double (-1)^neg * mant * 2^exp whose
\* significand mant is 0 or has exactly 53 bits.  (The numbers of the model are
\* far from the subnormal range and from overflow.)
NaN == [nan |-> TRUE, neg |-> FALSE, mant |-> <<>>, exp |-> 0]

Double(neg, mant, exp) == [nan |-> FALSE, neg |-> neg, mant |-> mant, exp |-> exp]

\* num and den multiplied by powers of two so that den <= num < 2 * den; shift
\* is the power num was multiplied by minus the one den was.
AlignOrdered(n, d, by) ==
    IF BigCmp(n, d) < 0
    THEN [num |-> BigDouble(n), den |-> d, shift |-> by + 1]
    ELSE [num |-> n, den |-> d, shift |-> by]

AlignBy(num, den, by) ==
    AlignOrdered(IF by > 0 THEN BigTimesPow2(num, by) ELSE num,
                 IF by < 0 THEN BigTimesPow2(den, 0 - by) ELSE den, by)

Align(num, den) == AlignBy(num, den, BigBits(den) - BigBits(num))

\* One step of binary long division: the next bit of the quotient.
\* twice is two times the remainder so far.
QuotientNext(quot, twice, den) ==
    IF BigCmp(twice, den) >= 0
    THEN [quot |-> BigAdd(BigDouble(quot), <<1>>), rem |-> BigSub(twice, den)]
    ELSE [quot |-> BigDouble(quot), rem |-> twice]

QuotientBit(s, den) == QuotientNext(s.quot, BigDouble(s.rem), den)

\* count more bits of the quotient, four at a time (count is a multiple of 4).
RECURSIVE QuotientBits(_, _, _)
RECURSIVE QuotientRest(_, _, _)
QuotientBits(s, den, count) ==
    IF count = 0 THEN s
    ELSE QuotientRest(QuotientBit(QuotientBit(QuotientBit(QuotientBit(s, den), den), den),
                                  den),
                      den, count - 4)

QuotientRest(t, den, count) == IF t.quot = <<>> THEN t ELSE QuotientBits(t, den, count)

\* The double nearest to (-1)^neg * (num / den) * 2^exp, the one with the even
\* significand of two equally near: the rounding of every arithmetic operation
\* and of the conversion of a decimal literal.  (den = 0 stands for 0 / 0; the
\* model has no infinities, and App divides no other number by zero.)
\* The double (-1)^neg * mant * 2^e for mant of 53 bits, or 2^53 after a carry.
Normalised(neg, mant, e) ==
    IF BigCmp(mant, BigTimesPow2(<<1>>, 53)) = 0
    THEN Double(neg, BigTimesPow2(<<1>>, 52), e + 1)
    ELSE Double(neg, mant, e)

\* The quotient quot rounded to nearest, to even when the remainder is a half:
\* half is the sign of 2 * remainder - divisor.
RoundHalfEven(quot, half) ==
    IF half > 0 \/ (half = 0 /\ BigIsOdd(quot)) THEN BigAdd(quot, <<1>>) ELSE quot

RoundQuotient(qr, den) == RoundHalfEven(qr.quot, BigCmp(BigDouble(qr.rem), den))

RoundAligned(neg, al, exp) ==
    Normalised(neg,
               RoundQuotient(QuotientBits([quot |-> <<1>>, rem |-> BigSub(al.num, al.den)],
                                          al.den, 52),
                             al.den),
               exp - al.shift - 52)

RoundToDouble(neg, num, den, exp) ==
    IF den = <<>> THEN NaN
    ELSE IF num = <<>> THEN Double(neg, <<>>, 0)
    ELSE RoundAligned(neg, Align(num, den), exp)

\* The double of a natural number below 2^31.
FromNat(n) == RoundToDouble(FALSE, BigOf(n), <<1>>, 0)

\* x / y for finite x and finite non-zero y.
Divide(x, y) == RoundToDouble(x.neg # y.neg, x.mant, y.mant, x.exp - y.exp)

\* x * y for finite x and y.
Times(x, y) == RoundToDouble(x.neg # y.neg, BigMul(x.mant, y.mant), <<1>>, x.exp + y.exp)

IsZero(x) == ~x.nan /\ x.mant = <<>>

\* x > 0
IsPositive(x) == ~x.nan /\ ~x.neg /\ x.mant # <<>>

\* x < n for a positive double x and a natural number n.
LessThanNat(x, n) ==
    IF x.exp >= 0 THEN BigCmp(BigTimesPow2(x.mant, x.exp), BigOf(n)) < 0
    ELSE BigCmp(x.mant, BigTimesPow2(BigOf(n), 0 - x.exp)) < 0

\* The decimal literal at the start of text: sign, digits, point, digits.  The
\* value read is (-1)^neg * mant / 10^scale; there is none without a digit.
\* (Exponent part, white space and Infinity do not occur in the model's texts.)
RECURSIVE ScanDigits(_, _, _, _)
ScanDigits(text, i, value, count) ==
    IF i <= Len(text) /\ IsDigit(text[i])
    THEN ScanDigits(text, i + 1, 10 * value + DigitValue[text[i]], count + 1)
    ELSE [value |-> value, count |-> count, next |-> i]

\* parseFloat(text): the double of the longest prefix of text that is a decimal
\* literal; characters after it are ignored; NaN when there is no literal.
parseFloat(text) ==
    LET signed == text # <<>> /\ text[1] \in {"-", "+"}
        neg == text # <<>> /\ text[1] = "-"
        int == ScanDigits(text, IF signed THEN 2 ELSE 1, 0, 0)
        hasPoint == int.next <= Len(text) /\ text[int.next] = "."
        frac == IF hasPoint THEN ScanDigits(text, int.next + 1, int.value, 0)
                ELSE [value |-> int.value, count |-> 0, next |-> int.next]
    IN  IF int.count = 0 /\ frac.count = 0 THEN NaN
        ELSE RoundToDouble(neg, BigOf(frac.value), BigOf(Power10(frac.count)), 0)

\* x.toFixed(1) for a double 0 < x < 100: the integer n with n / 10 nearest to
\* the exact value of x, the larger of two equally near, written with one
\* digit after the point.  Such an x has exp < 0.
TenthsText(n) == NatToString(n \div 10) \o <<".", DigitChar(n % 10)>>

toFixed1(x) ==
    TenthsText(BigToNat(BigShiftRight(BigAdd(BigScale(x.mant, 20, 0),
                                             BigTimesPow2(<<1>>, 0 - x.exp)),
                                      1 - x.exp)))

\* -------------------------------------------------------------- the form

\* The argument of setBmi in the effect with dependencies [height, weight],
\* for the height and weight of the render the effect belongs to.
BmiEffectText(bmiValue) ==
    IF IsPositive(bmiValue) /\ LessThanNat(bmiValue, 100)
    THEN Str(toFixed1(bmiValue))
    ELSE Null

BmiEffectValue(w, heightInMeters) == Divide(w, Times(heightInMeters, heightInMeters))

BmiEffectNumbers(h, w) ==
    IF h.nan \/ w.nan \/ IsZero(h) THEN Null
    ELSE BmiEffectText(BmiEffectValue(w, Divide(h, FromNat(100))))

BmiEffectResult(heightText, weightText) ==
    IF heightText = <<>> \/ weightText = <<>> THEN Null
    ELSE BmiEffectNumbers(parseFloat(heightText), parseFloat(weightText))

\* The values of the height and of the weight field.  Both are
\* <input type="number">, whose value is '' or a valid floating-point number.
HeightTexts ==
    { <<>>, <<"0">>, <<"1">>, <<"8", "0">>, <<"1", "6", "0">>, <<"1", "8", "0">>,
      <<"2", "0", "0">>, <<"-", "1", "8", "0">>, <<"1", "7", "0", ".", "5">> }

WeightTexts ==
    { <<>>, <<"0">>, <<".", "5">>, <<"8", ".", "8">>, <<"7", "0">>, <<"8", "1">>,
      <<"2", "5", "6">>, <<"4", "0", "0">>, <<"-", "7", "0">>, <<"7", "0", ".", "5">> }

\* What is typed into the age field (inputMode="numeric", any text).
\* Ages, years around 1900, years around the clock's, and texts that are no
\* plain numeral.
AgeNumbers ==
    (0..3) \cup {34, 45, 999} \cup (1898..1902) \cup {1990} \cup (2022..2029)
        \cup {9999, 10000}

AgeTexts ==
    {NatToString(n) : n \in AgeNumbers}
        \cup { <<>>, <<"1", "9", "a">>, <<"0", "1", "9", "9", "0">> }

\* new Date().getFullYear() at the moment the age field loses focus.
Years == {2024, 2026, 2027}

\* onChange={(e) => setHeight(e.target.value)}.  The render with the new height
\* has the effect with dependencies [height, weight] to run.
SetHeight(v) ==
    /\ mounted
    /\ ~bmiEffectPending
    /\ height' = v
    /\ bmiEffectPending' = (v # height)
    /\ UNCHANGED <<navVars, mounted, call, frame, isDark, isSaving, showToast, saveTimers,
                   weight, bmi, age>>
    /\ ToastEffect

\* onChange={(e) => setWeight(e.target.value)}
SetWeight(v) ==
    /\ mounted
    /\ ~bmiEffectPending
    /\ weight' = v
    /\ bmiEffectPending' = (v # weight)
    /\ UNCHANGED <<navVars, mounted, call, frame, isDark, isSaving, showToast, saveTimers,
                   height, bmi, age>>
    /\ ToastEffect

\* The effect with dependencies [height, weight] runs, after the render whose
\* height or weight differs from the previous one has been committed.
BmiEffect ==
    /\ bmiEffectPending
    /\ bmiEffectPending' = FALSE
    /\ bmi' = BmiEffectResult(height, weight)
    /\ UNCHANGED <<navVars, mounted, call, frame, isDark, isSaving, showToast, saveTimers,
                   height, weight, age>>
    /\ ToastEffect

\* /^\d+$/.test(val)
IsDigits(val) == val # <<>> /\ \A k \in 1..Len(val) : IsDigit(val[k])

\* Faulty variant of handleAgeChange: a year of birth is converted as it is typed.
handleAgeChange_ConvertsYear(val) ==
    /\ mounted
    /\ ~bmiEffectPending
    /\ age' = IF val = <<>> THEN val
              ELSE IF ~IsDigits(val) THEN age
              ELSE IF ScanDigits(val, 1, 0, 0).value > 1900
                      /\ ScanDigits(val, 1, 0, 0).value <= 2026
                   THEN NatToString(2026 - ScanDigits(val, 1, 0, 0).value)
                   ELSE val
    /\ UNCHANGED <<navVars, mounted, call, frame, isDark, isSaving, showToast, saveTimers,
                   height, weight, bmi, bmiEffectPending>>
    /\ ToastEffect

\* handleAgeChange: the change is taken when val is '' or all digits.
handleAgeChange(val) ==
    /\ mounted
    /\ ~bmiEffectPending
    /\ age' = IF val = <<>> \/ IsDigits(val) THEN val ELSE age
    /\ UNCHANGED <<navVars, mounted, call, frame, isDark, isSaving, showToast, saveTimers,
                   height, weight, bmi, bmiEffectPending>>
    /\ ToastEffect

\* parseInt(text, 10) of a text that starts with a digit: the number its
\* leading digits denote.
parseInt(text) == ScanDigits(text, 1, 0, 0).value

\* Faulty variant of handleAgeBlurResult: 1900 is taken as a year of birth
\* (num >= 1900).
handleAgeBlurResult_From1900(text, currentYear) ==
    IF text = <<>> THEN text
    ELSE IF parseInt(text) >= 1900 /\ parseInt(text) <= currentYear
         THEN NatToString(currentYear - parseInt(text))
         ELSE text

\* The age field after handleAgeBlur has run on text: the early return on '',
\* else setAge((currentYear - num).toString()) for 1900 < num <= currentYear.
handleAgeBlurResult(text, currentYear) ==
    IF text = <<>> THEN text
    ELSE IF parseInt(text) > 1900 /\ parseInt(text) <= currentYear
         THEN NatToString(currentYear - parseInt(text))
         ELSE text

\* handleAgeBlur, with currentYear the year of the clock.
handleAgeBlur(currentYear) ==
    /\ mounted
    /\ ~bmiEffectPending
    /\ age' = handleAgeBlurResult(age, currentYear)
    /\ UNCHANGED <<navVars, mounted, call, frame, isDark, isSaving, showToast, saveTimers,
                   height, weight, bmi, bmiEffectPending>>
    /\ ToastEffect

\* onToggleTheme={() => setIsDark(!isDark)} of the rail and the onClick of the
\* floating theme button.
ToggleTheme ==
    /\ mounted
    /\ ~bmiEffectPending
    /\ isDark' = ~isDark
    /\ UNCHANGED <<navVars, mounted, call, frame, isSaving, showToast, saveTimers,
                   height, weight, bmi, bmiEffectPending, age>>
    /\ ToastEffect

\* handleSave: a click on the save button, which is never disabled.
handleSave ==
    /\ mounted
    /\ ~bmiEffectPending
    /\ saveTimers < MaxSaves
    /\ isSaving' = TRUE
    /\ saveTimers' = saveTimers + 1
    /\ UNCHANGED <<navVars, mounted, call, frame, isDark, showToast,
                   height, weight, bmi, bmiEffectPending, age>>
    /\ ToastEffect

\* The setTimeout callback of handleSave, 800 ms after the click.
SaveFires ==
    /\ ~bmiEffectPending
    /\ saveTimers > 0
    /\ isSaving' = FALSE
    /\ showToast' = TRUE
    /\ saveTimers' = saveTimers - 1
    /\ UNCHANGED <<navVars, mounted, call, frame, isDark,
                   height, weight, bmi, bmiEffectPending, age>>
    /\ ToastEffect

\* The callback of the 3000 ms timer of Toast: setVisible(false) and
\* setTimeout(onClose, 300).  Toast renders with the onClose it had, so its
\* effect does not run.  The timer started 300 ms ago fires before one that is
\* started now for 3000 ms.
HideFires(t) ==
    /\ ~bmiEffectPending
    /\ hideTimer = t
    /\ ~closeTimer
    /\ visible' = FALSE
    /\ hideTimer' = NoTimer
    /\ closeTimer' = TRUE
    /\ UNCHANGED <<navVars, mounted, call, frame, formVars>>

HideTimerFires == \E t \in TimerIds : HideFires(t)

\* The callback of the 300 ms timer of Toast: onClose, that is
\* () => setShowToast(false) of App.
CloseToast ==
    /\ ~bmiEffectPending
    /\ closeTimer
    /\ closeTimer' = FALSE
    /\ showToast' = IF mounted THEN FALSE ELSE showToast
    /\ UNCHANGED <<navVars, mounted, call, frame, isDark, isSaving, saveTimers,
                   height, weight, bmi, bmiEffectPending, age>>
    /\ IF ReactState' = ReactState
       THEN UNCHANGED <<visible, hideTimer>>
       ELSE /\ hideTimer' = NoTimer
            /\ UNCHANGED visible

HeightEdit == \E v \in HeightTexts : SetHeight(v)
WeightEdit == \E v \in WeightTexts : SetWeight(v)
AgeEdit == \E v \in AgeTexts : handleAgeChange(v)
AgeBlur == \E y \in Years : handleAgeBlur(y)

\* The BMI effect as a function: any height and weight, and the effect to run.
InitBmi ==
    /\ mode = "adult"
    /\ expandedSections = [k \in {"concern", "identity"} |-> TRUE]
    /\ activeSectionId = "identity"
    /\ isManualScrolling = FALSE
    /\ timers = <<>>
    /\ scrollY = 0
    /\ scrollTarget = NoTarget
    /\ layout = StackedLayout(0)
    /\ lastEvent = "init"
    /\ mounted = TRUE
    /\ call = Idle
    /\ frame = NewFrame
    /\ isDark = TRUE
    /\ isSaving = FALSE
    /\ showToast = FALSE
    /\ saveTimers = 0
    /\ height \in HeightTexts
    /\ weight \in WeightTexts
    /\ bmi = Null
    /\ bmiEffectPending = TRUE
    /\ age = <<>>
    /\ visible = FALSE
    /\ hideTimer = NoTimer
    /\ closeTimer = FALSE

SpecBmi == InitBmi /\ [][BmiEffect]_vars

\* The document as first laid out, every section present.
InitApp == Init /\ layout = StackedLayout(0)

\* The vitals fields: edits of height and weight, and the effect.
VitalsNext ==
    \/ HeightEdit
    \/ WeightEdit
    \/ BmiEffect

SpecVitals == InitMounted /\ [][VitalsNext]_vars

\* The age field, under either theme and in every mode.
AgeNext ==
    \/ AgeEdit
    \/ AgeBlur
    \/ ToggleTheme
    \/ ModeChange

SpecAge == InitApp /\ [][AgeNext]_vars

\* The whole application: every handler, effect and timer callback of App, each
\* input drawn from a few values.  A React event is delivered once the effects
\* of the previous render have run; the navigation timers touch no state of
\* React and fire at any time.
AppScroll == ~bmiEffectPending /\ \E y \in {0, ScrollStep} : Scroll(y) /\ UNCHANGED frame
AppClick == ~bmiEffectPending /\ RailClick(SECTIONS[2])
AppToggle == ~bmiEffectPending /\ ToggleSection(SECTIONS[2])
AppModeChange == ~bmiEffectPending /\ \E m \in {"adult", "peds"} : SetMode(m)
AppHeightEdit == \E v \in {<<>>, <<"1", "8", "0">>} : SetHeight(v)
AppWeightEdit == SetWeight(<<"7", "0">>)
AppAgeEdit == \E v \in {<<"1", "9", "9", "0">>, <<"1", "9", "a">>} : handleAgeChange(v)
AppAgeBlur == handleAgeBlur(2026)
AppSave == saveTimers = 0 /\ handleSave

AppNext ==
    \/ AppScroll
    \/ AppClick
    \/ PreScroll
    \/ Settle
    \/ AppToggle
    \/ AppModeChange
    \/ ToggleTheme
    \/ AppSave
    \/ SaveFires
    \/ HideTimerFires
    \/ CloseToast
    \/ AppHeightEdit
    \/ AppWeightEdit
    \/ BmiEffect
    \/ AppAgeEdit
    \/ AppAgeBlur

SpecApp == InitApp /\ [][AppNext]_vars

\* The modes: mode changes among navigation and header toggles.
ModeNext ==
    \/ ModeChange
    \/ AppScroll
    \/ AppClick
    \/ PreScroll
    \/ Settle
    \/ Toggle

SpecMode == InitApp /\ [][ModeNext]_vars

\* Save and the Toast: clicks on the save button, the timers of handleSave and
\* of Toast, and the theme button and the mode control as causes of renders
\* of App.
ToastNext ==
    \/ handleSave
    \/ SaveFires
    \/ HideTimerFires
    \/ CloseToast
    \/ ToggleTheme
    \/ AppModeChange

SpecToast == InitApp /\ [][ToastNext]_vars

\* Every timer that stays pending fires: the timers of handleSave, each hide
\* timer of Toast for itself, and the close timer.
SpecToastLive ==
    /\ SpecToast
    /\ WF_vars(SaveFires)
    /\ \A t \in TimerIds : WF_vars(HideFires(t))
    /\ WF_vars(CloseToast)

\* ---------------------------------------------------------------- claims

\* The trigger window of section s as the specification states it:
\* [offsetTop - 140, offsetTop - 140 + height + 100).
InStatedWindow(lay, s, probe) ==
    /\ lay[s].present
    /\ probe >= lay[s].offsetTop - 140
    /\ probe < lay[s].offsetTop - 140 + lay[s].offsetHeight + 100

\* The sections whose stated window contains the probe point of scroll offset y.
Hits(lay, y) == {s \in SectionIds : InStatedWindow(lay, s, y + 300)}

\* The member of a non-empty set of sections that is last in SECTIONS order.
LastInOrder(S) == CHOOSE s \in S : \A r \in S : IndexOf(r) <= IndexOf(s)

\* The settle timeout of the most recent navigation request has not elapsed:
\* its outer or its inner callback is still pending.
NavigationPending == \E i \in 1..Len(timers) : timers[i].latest

SettleTimers == {i \in 1..Len(timers) : timers[i].kind = "settle"}

\* C1: a rail click on X while activeSectionId # X sets activeSectionId = X and
\* expandedSections[X] = true at once, and no scroll event handled before that
\* navigation's settle timeout has elapsed changes activeSectionId.
C1_ClickSuppressesScrollSpy ==
    [][/\ \A X \in SectionIds :
            (RailClick(X) /\ activeSectionId # X)
                => (activeSectionId' = X /\ IsOpen(expandedSections', X))
       /\ (ScrollEvent /\ NavigationPending) => activeSectionId' = activeSectionId]_vars

\* C2: at most one settle timer is outstanding in every reachable state.
C2_AtMostOneSettleTimer == Cardinality(SettleTimers) <= 1

\* C3: suppression is lifted by one settle timer only, the one started for the
\* most recent rail click Y, and activeSectionId = Y at that moment.
C3_LastClickGovernsSettle ==
    [][\A i \in 1..Len(timers) :
          (SettleFires(i) /\ isManualScrolling)
              => /\ timers[i].latest
                 /\ activeSectionId' = timers[i].id
                 /\ SettleTimers = {i}]_vars

\* C4: whenever isManualScrolling is true it eventually becomes false again,
\* whether or not the target element exists.
C4_SuppressionEnds == isManualScrolling ~> ~isManualScrolling

\* A navigation to a section that has no element is in flight.
C4_Witness ==
    /\ isManualScrolling
    /\ \E i \in 1..Len(timers) : timers[i].kind = "pre" /\ ~layout[timers[i].id].present

\* C5: activeSectionId is always the id of one of the seven sections.
C5_ActiveInRegistry == activeSectionId \in SectionIds /\ Cardinality(SectionIds) = 7

\* After a mode change, a toggle that closed a section and a navigation, a
\* scroll event found no window.
C5_Witness ==
    /\ lastEvent = "scroll"
    /\ ~isManualScrolling
    /\ Hits(layout, scrollY) = {}
    /\ mode # "adult"
    /\ \E k \in DOMAIN expandedSections : ~expandedSections[k]
    /\ scrollTarget # NoTarget

\* C6: a rail click on the active section changes nothing: not activeSectionId,
\* not expandedSections, not the flag; it requests no scroll and schedules no
\* timer.
C6_ClickOnActiveIsNoOp ==
    [][\A X \in SectionIds :
          (activeSectionId = X /\ RailClick(X))
              => UNCHANGED <<activeSectionId, expandedSections, isManualScrolling,
                             timers, scrollTarget, scrollY, mode>>]_vars

\* The active section was collapsed and its rail button was clicked after its
\* navigation had settled.
C6_Witness ==
    /\ lastEvent = "click"
    /\ timers = <<>>
    /\ ~isManualScrolling
    /\ activeSectionId \in DOMAIN expandedSections
    /\ ~expandedSections[activeSectionId]

\* C7: while observing, a scroll event whose probe point lies in the stated
\* window of exactly one section K sets activeSectionId = K.
C7_OnlyWindowBecomesActive ==
    [][\A K \in SectionIds :
          (SpyScrollEvent /\ ~isManualScrolling /\ Hits(layout, scrollY') = {K})
              => activeSectionId' = K]_vars

\* A scroll event moved the highlight to the only section whose window holds
\* the probe point, which is at the excluded end of another section's window
\* later in SECTIONS order.
C7_Witness ==
    /\ lastEvent = "scroll"
    /\ Hits(layout, scrollY) = {activeSectionId}
    /\ activeSectionId # "identity"
    /\ \E s \in SectionIds :
          /\ IndexOf(s) > IndexOf(activeSectionId)
          /\ layout[s].present
          /\ scrollY + 300 = layout[s].offsetTop - 140 + layout[s].offsetHeight + 100

\* C8: while observing, when the probe point lies in the windows of several
\* sections, the scroll event selects the one that is last in SECTIONS order.
C8_LastHitWins ==
    [][(SpyScrollEvent /\ ~isManualScrolling /\ Cardinality(Hits(layout, scrollY')) >= 2)
          => activeSectionId' = LastInOrder(Hits(layout, scrollY'))]_vars

\* A scroll event chose among three or more overlapping windows, and the
\* chosen section is not the one lowest in the document.
C8_Witness ==
    /\ lastEvent = "scroll"
    /\ Cardinality(Hits(layout, scrollY)) >= 3
    /\ activeSectionId = LastInOrder(Hits(layout, scrollY))
    /\ \E s \in Hits(layout, scrollY) : layout[s].offsetTop > layout[activeSectionId].offsetTop

\* C9: a scroll event whose probe point lies in no section's window leaves
\* activeSectionId as it was.
C9_NoWindowKeepsActive ==
    [][(ScrollEvent /\ Hits(layout, scrollY') = {}) => activeSectionId' = activeSectionId]_vars

\* After a navigation has settled, a scroll event that found no window kept
\* the section the navigation had selected.
C9_Witness ==
    /\ lastEvent = "scroll"
    /\ ~isManualScrolling
    /\ timers = <<>>
    /\ Hits(layout, scrollY) = {}
    /\ activeSectionId \in Targets
    /\ scrollTarget = ScrollDestination(layout[activeSectionId])

\* C10: once the settle timeout of the most recent navigation has fired the
\* engine observes again: the flag is false, and a scroll event whose probe
\* point lies only in section K's window sets activeSectionId = K.
C10_ObservingAfterSettle ==
    [][/\ (isManualScrolling' => NavigationPending')
       /\ \A K \in SectionIds :
            (ScrollEvent /\ ~NavigationPending /\ Hits(layout, scrollY') = {K})
                => activeSectionId' = K]_vars

\* The navigation timers have all fired and a scroll event has moved the
\* highlight from the navigation's target to another section.
C10_Witness ==
    /\ lastEvent = "scroll"
    /\ timers = <<>>
    /\ scrollTarget # NoTarget
    /\ Hits(layout, scrollY) = {activeSectionId}
    /\ activeSectionId \notin Targets
    /\ activeSectionId # "identity"

\* The entry of section k in an expansion map, as the specification reads it:
\* open, closed, or absent.
Entry(expanded, k) ==
    IF k \notin DOMAIN expanded THEN "absent"
    ELSE IF expanded[k] THEN "open" ELSE "closed"

\* C14: toggleSection(A) flips the entry of A (an absent entry counts as closed
\* and becomes open) and leaves the entry of every other section as it was.
C14_ToggleFlipsOnlyItsSection ==
    [][\A A \in SectionIds :
          ToggleSection(A)
              => /\ Entry(expandedSections, A) = "open"
                        => Entry(expandedSections', A) = "closed"
                 /\ Entry(expandedSections, A) \in {"closed", "absent"}
                        => Entry(expandedSections', A) = "open"
                 /\ \A B \in SectionIds \ {A} :
                        Entry(expandedSections', B) = Entry(expandedSections, B)]_vars

\* Headers were toggled open from absent, closed from open and closed after a
\* navigation had opened them, while another section kept its entry.
C14_Witness ==
    /\ Entry(expandedSections, "hpi") = "closed"
    /\ Entry(expandedSections, "concern") = "closed"
    /\ Entry(expandedSections, "identity") = "open"
    /\ Entry(expandedSections, "ros") = "absent"
    /\ activeSectionId = "hpi"

\* C15: no scroll event changes any entry of expandedSections, whether or not
\* it changes activeSectionId and whether or not scroll events are suppressed.
C15_ScrollKeepsExpansion ==
    [][ScrollEvent => \A k \in SectionIds :
                          Entry(expandedSections', k) = Entry(expandedSections, k)]_vars

\* A scroll event moved the highlight to a section that has no entry, and
\* another section is closed.
C15_Witness ==
    /\ lastEvent = "scroll"
    /\ ~isManualScrolling
    /\ activeSectionId # "identity"
    /\ Entry(expandedSections, activeSectionId) = "absent"
    /\ \E k \in SectionIds : Entry(expandedSections, k) = "closed"

\* C16: a change of clinical mode leaves activeSectionId, expandedSections and
\* isManualScrolling unchanged, also while a navigation is in flight.
C16_ModeChangeKeepsNavigation ==
    [][ModeChange => /\ activeSectionId' = activeSectionId
                     /\ expandedSections' = expandedSections
                     /\ isManualScrolling' = isManualScrolling]_vars

\* The mode is not the initial one while a navigation is in flight and a
\* section is closed.
C16_Witness ==
    /\ mode = "peds"
    /\ isManualScrolling
    /\ NavigationPending
    /\ activeSectionId # "identity"
    /\ \E k \in SectionIds : Entry(expandedSections, k) = "closed"

\* C18: the keys of expandedSections are always among the seven section ids.
C18_ExpansionKeysInRegistry ==
    /\ DOMAIN expandedSections \subseteq SectionIds
    /\ SectionIds = {"identity", "concern", "hpi", "ros", "background", "exam", "plan"}

\* A toggle added the key of one section and a navigation that of another.
C18_Witness ==
    /\ DOMAIN expandedSections = {"identity", "concern", "hpi"}
    /\ Entry(expandedSections, "concern") = "closed"
    /\ activeSectionId = "hpi"
    /\ isManualScrolling

\* The write of the section the call in progress navigates to has been made:
\* setActiveSectionId has been called with it, or it is the active section.
ActiveWriteIssued ==
    \/ activeSectionId = call.id
    \/ \E k \in 1..Len(call.updates) : call.updates[k] = "activeSectionId"

\* C11: within one navigation request the write activeSectionId := X comes
\* before isManualScrolling is set to true.
C11_ActiveWrittenBeforeFlag == [][NavSetFlag => ActiveWriteIssued]_vars

\* C12: unmounting cancels every pending delayed action of the navigation: once
\* App is unmounted no navigation timer fires and no handler runs.
C12_UnmountCancelsTimers ==
    [][~mounted => ~(PreScroll \/ Settle \/ ScrollEvent \/ Click)]_vars

\* C13: scroll observation is rate-limited: the scroll events of one
\* display-refresh interval cause at most one recomputation of the active
\* section.
C13_OneScanPerFrame == frame.scans <= 1

\* The number a numeral denotes, read off its digits: (-1)^neg * mant / 10^scale.
RECURSIVE DigitsNumber(_)
DigitsNumber(digits) ==
    IF digits = <<>> THEN 0
    ELSE DigitValue[digits[Len(digits)]]
           + 10 * DigitsNumber(SubSeq(digits, 1, Len(digits) - 1))

\* A numeral: an optional "-", then digits with at most one point among them,
\* which is not the last character.
IsNumeral(text) ==
    LET body == IF text # <<>> /\ text[1] = "-" THEN Tail(text) ELSE text
    IN  /\ body # <<>>
        /\ \A k \in 1..Len(body) : IsDigit(body[k]) \/ body[k] = "."
        /\ Cardinality({k \in 1..Len(body) : body[k] = "."}) <= 1
        /\ body[Len(body)] # "."

NumeralValue(text) ==
    LET neg == text[1] = "-"
        body == IF neg THEN Tail(text) ELSE text
        points == {k \in 1..Len(body) : body[k] = "."}
    IN  [neg |-> neg,
         mant |-> DigitsNumber(SelectSeq(body, IsDigit)),
         scale |-> IF points = {} THEN 0 ELSE Len(body) - (CHOOSE k \in points : TRUE)]

\* Decimal long division: quot and rem are the quotient and the remainder of a
\* division by den; k more decimal places of the quotient are taken, and no
\* more once the quotient has reached limit.
RECURSIVE DecimalPlaces(_, _, _, _, _)
DecimalPlaces(quot, rem, den, k, limit) ==
    IF k = 0 \/ quot >= limit THEN [quot |-> quot, rem |-> rem, den |-> den]
    ELSE DecimalPlaces(10 * quot + (10 * rem) \div den, (10 * rem) % den, den, k - 1, limit)

\* w / (h / 100)^2 in tenths, for numerals h # 0 and w >= 0 with w's scale at
\* most 5: the whole tenths (1000 or more stand for 100.0 or more) and the
\* remainder over the denominator.
StatedBmiTenths(h, w) ==
    LET hv == NumeralValue(h)
        wv == NumeralValue(w)
        den == hv.mant * hv.mant
    IN  DecimalPlaces(wv.mant \div den, wv.mant % den, den,
                      5 + 2 * hv.scale - wv.scale, 1000)

\* The text shows n tenths: digits, a point and one digit.
ShowsTenths(text, n) ==
    /\ IsNumeral(text)
    /\ NumeralValue(text) = [neg |-> FALSE, mant |-> n, scale |-> 1]

\* C19: for height h and weight w both present and numeric with h # 0 the BMI
\* shown is w / (h/100)^2 rounded to one decimal when 0 < bmi < 100 (180 and 70
\* give "21.6"), and in every other case it is blank.
C19_BmiFunction ==
    ~bmiEffectPending =>
        /\ (height = <<"1", "8", "0">> /\ weight = <<"7", "0">>)
               => bmi = Str(<<"2", "1", ".", "6">>)
        /\ IF /\ IsNumeral(height)
              /\ IsNumeral(weight)
              /\ NumeralValue(height).mant # 0
              /\ NumeralValue(weight).mant # 0
              /\ ~NumeralValue(weight).neg
              /\ StatedBmiTenths(height, weight).quot < 1000
           THEN LET t == StatedBmiTenths(height, weight)
                IN  /\ ~bmi.isNull
                    /\ \/ 2 * t.rem <= t.den /\ ShowsTenths(bmi.text, t.quot)
                       \/ 2 * t.rem >= t.den /\ ShowsTenths(bmi.text, t.quot + 1)
           ELSE bmi = Null

\* C20: the BMI on display is never stale: in every state the stored bmi is
\* the value the calculator gives for the current height and weight.
C20_BmiNeverStale ==
    bmi = BmiEffectResult(height, weight)

\* C17: activeSectionId is written only by handleScroll and by scrollToSection:
\* a step that changes it is a scroll event or a rail click, and section
\* toggles, mode changes, theme toggles, save, the edits of height, weight and
\* age (with the BMI effect) and the firing of any timer leave it as it was.
C17_ActiveWrittenOnlyByScrollAndClick ==
    [][ activeSectionId' # activeSectionId =>
            /\ ScrollEvent \/ Click
            /\ ~( \/ Toggle \/ ModeChange \/ ToggleTheme
                  \/ handleSave \/ SaveFires \/ HideTimerFires \/ CloseToast
                  \/ HeightEdit \/ WeightEdit \/ BmiEffect \/ AgeEdit \/ AgeBlur
                  \/ PreScroll \/ Settle ) ]_vars

\* The section selected by a click has since been closed by its header, the
\* mode and the theme changed, a save completed, the BMI computed and the age
\* derived from a year of birth.
C17_Witness ==
    /\ activeSectionId = "concern"
    /\ ~IsOpen(expandedSections, "concern")
    /\ timers = <<>>
    /\ mode = "peds"
    /\ ~isDark
    /\ showToast
    /\ saveTimers = 0
    /\ bmi = Str(<<"2", "1", ".", "6">>)
    /\ age = <<"3", "6">>

\* C24: at the start, before any event, the scroll spy is observing
\* (isManualScrolling is false and no navigation timer is pending),
\* activeSectionId is the id of the first entry of SECTIONS, and exactly the
\* sections identity and concern are open.
C24_InitialState ==
    lastEvent = "init" =>
        /\ ~isManualScrolling
        /\ timers = <<>>
        /\ activeSectionId = SECTIONS[1]
        /\ activeSectionId = "identity"
        /\ {s \in SectionIds : IsOpen(expandedSections, s)} = {"identity", "concern"}

\* The application as constructed, nothing having happened yet.
C24_Witness ==
    /\ lastEvent = "init"
    /\ mounted
    /\ scrollY = 0
    /\ mode = "adult"
    /\ IsOpen(expandedSections, "concern")
    /\ ~IsOpen(expandedSections, "hpi")

\* C25: every window.scrollTo issued by the delayed callback of scrollToSection
\* is issued while isManualScrolling is true, whatever the interleaving of
\* rail clicks and timer callbacks.
C25_ScrollRequestWhileSuppressed ==
    [][\A i \in 1..Len(timers) :
          (PreScrollFires(i) /\ layout[timers[i].id].present) => isManualScrolling]_vars

\* C26: a navigation request to X (a rail click on X while another section is
\* active) leaves X open, whether or not it was, and every other section's
\* entry as it was; and no rail click and no navigation timer turns an entry
\* from open or absent to closed.
C26_NavigationOnlyOpensTarget ==
    [][ /\ \A X \in Targets :
              (RailClick(X) /\ activeSectionId # X)
                  => /\ IsOpen(expandedSections', X)
                     /\ \A k \in SectionIds \ {X} :
                           Entry(expandedSections', k) = Entry(expandedSections, k)
        /\ (Click \/ PreScroll \/ Settle)
              => \A k \in SectionIds :
                    Entry(expandedSections', k) = "closed"
                        => Entry(expandedSections, k) = "closed" ]_vars

\* A rail click has just opened hpi while concern, closed by its header
\* earlier, is still closed.
C26_Witness ==
    /\ lastEvent = "click"
    /\ activeSectionId = "hpi"
    /\ IsOpen(expandedSections, "hpi")
    /\ Entry(expandedSections, "concern") = "closed"
    /\ Entry(expandedSections, "identity") = "open"

\* C27: when the window is at the destination of the navigation to the active
\* section X (scrollY = top of X - 110) and suppression has been lifted, a
\* scroll event that leaves the window there keeps the highlight on X.
C27_LandingKeepsTarget ==
    [][ ( /\ ScrollArrives
          /\ scrollY = scrollTarget
          /\ scrollTarget = layout[activeSectionId].offsetTop - Y_OFFSET
          /\ ~isManualScrolling
          /\ timers = <<>> )
        => activeSectionId' = activeSectionId ]_vars

\* The age field shows the number n in decimal notation.
ShowsNumber(text, n) ==
    /\ IsDigits(text)
    /\ DigitsNumber(text) = n
    /\ Len(text) = 1 \/ text[1] # "0"

C22_ConversionOnlyOnBlurOnce ==
    [][ /\ \A v \in AgeTexts :
              handleAgeChange(v) =>
                  /\ age' \in {v, age}
                  /\ IsDigits(v) => age' = v
        /\ \A y \in Years :
              (handleAgeBlur(y) /\ age' # age) =>
                  \A z \in Years : handleAgeBlurResult(age', z) = age' ]_vars

\* An age that only the conversion of 1901 in 2027 produces.
C22_Witness == age = <<"1", "2", "6">> /\ ~isDark

\* The blocks of a section that are rendered in some modes only, in mode m.
ModeSpecificBlocks(sectionId, m) ==
    {i \in 1..Len(SectionBlocks(sectionId)) :
        /\ SectionBlocks(sectionId)[i].modes # MODES
        /\ m \in SectionBlocks(sectionId)[i].modes}

\* C23: what App renders inside a section is a function of (mode, sectionId):
\* it is defined for each of the 3 x 7 pairs, a step that keeps the mode keeps
\* it for every section (whatever happens to activeSectionId and
\* expandedSections), and in background and in exam exactly one of the three
\* mode-specific blocks is there in each mode.
C23_FieldGroupsFunctionOfMode ==
    [][ /\ \A m \in MODES : \A s \in SectionIds :
              /\ Len(BlocksIn(SectionBlocks(s), 1, m)) <= Len(SectionBlocks(s))
              /\ mode' = m => SectionChildren(s)' = BlocksIn(SectionBlocks(s), 1, m)
        /\ mode' = mode => \A s \in SectionIds : SectionChildren(s)' = SectionChildren(s)
        /\ \A s \in {"background", "exam"} :
              /\ Cardinality({i \in 1..Len(SectionBlocks(s)) :
                                 SectionBlocks(s)[i].modes # MODES}) = 3
              /\ Cardinality(ModeSpecificBlocks(s, mode')) = 1
              /\ \A i \in ModeSpecificBlocks(s, mode') :
                    \E j \in 1..Len(SectionChildren(s)') :
                        SectionChildren(s)'[j] = SectionBlocks(s)[i].name
              /\ Len(SectionChildren(s)')
                    = Len(SectionBlocks(s)) - 2 ]_vars

\* In pediatric mode, after a navigation and with a section closed, the exam
\* section holds the vitals and the pediatric exam.
C23_Witness ==
    /\ mode = "peds"
    /\ activeSectionId = "hpi"
    /\ Entry(expandedSections, "concern") = "closed"
    /\ SectionChildren("exam") = <<"Vitals Block", "PEDS EXAM">>
    /\ SectionChildren("background") = <<"PEDIATRIC BACKGROUND">>

\* C28: isSaving is true exactly while at least one timer of handleSave is
\* pending, so with two overlapping save clicks isSaving stays true until the
\* last pending save has been acknowledged.
C28_SavingWhileTimerPending ==
    isSaving <=> saveTimers > 0

\* C29: the toast never sticks: whenever show is false and neither the hide
\* timer nor the close timer of Toast is pending, visible is false, so that
\* Toast renders nothing.
C29_ToastNeverSticks ==
    (~showToast /\ hideTimer = NoTimer /\ ~closeTimer) => ~visible

\* C30: once show has become true it returns to false, every pending timer
\* firing in the end, also when App renders again while the toast is shown.
C30_ToastCloses ==
    showToast ~> ~showToast

====
